---------------------------- MODULE Spec2Model ----------------------------
(***************************************************************************)
(* Model of app.py of Disease_Treatment_API: the text normaliser           *)
(* (clean_text), the term dictionary builder (expand_terms), the adjacency *)
(* merge of labelled entities (merge_medication_entities), the medication  *)
(* record assembly (extract_medications) and the dictionary test           *)
(* extraction (extract_tests), as called by the request handler            *)
(* extract_info.                                                           *)
(*                                                                         *)
(* A Python str is a sequence of one-character strings, so that strip(),   *)
(* lower(), split(","), concatenation and the regular expressions of       *)
(* clean_text are computed character by character.                         *)
(***************************************************************************)
EXTENDS Integers, Sequences, FiniteSets, TLC

VARIABLES
    \* ---- clean_text (app.py 106-109), applied twice
    rawText,          \* the text handed to the first application
    cleanPc,          \* position inside clean_text
    cleanBuf,         \* the local variable `text` of clean_text
    cleanPass,        \* 1: first application, 2: re-application to its result
    cleaned1,         \* result of the first application
    cleaned2,         \* result of the second application
    \* ---- expand_terms (app.py 21-29)
    series,           \* the column handed to expand_terms (cells or Null)
    termsPc,          \* position inside expand_terms
    cellIdx,          \* index of the next cell of series
    pieces,           \* pieces of the current cell still to be looked at
    all_terms,        \* the list all_terms
    termsOut,         \* the returned list
    \* ---- extract_info / extract_medications / merge_medication_entities /
    \* ---- extract_tests (app.py 50-126, 171-198)
    ents,             \* doc.ents: what the labeller returned for the text
    doc,              \* tokens of the cleaned text (nlp_general)
    pathology_terms,  \* dictionary terms, each a token sequence
    radiology_terms,
    pc,               \* position inside the request
    i,                \* loop index of merge_medication_entities
    skip_next,        \* flag of merge_medication_entities
    merged,           \* list built by merge_medication_entities
    k,                \* loop index of the record assembly loop
    medications,      \* the list medications
    current_med,      \* index in medications of current_med, Unbound before
                      \* the first assignment
    medsOut,          \* value returned by extract_medications
    matches,          \* matches of the phrase matcher still to be bucketed
    patho,            \* list patho
    radio,            \* list radio
    testsOut          \* pair returned by extract_tests

cleanVars == <<rawText, cleanPc, cleanBuf, cleanPass, cleaned1, cleaned2>>
termVars  == <<series, termsPc, cellIdx, pieces, all_terms, termsOut>>
reqVars   == <<ents, doc, pathology_terms, radiology_terms, pc, i, skip_next,
               merged, k, medications, current_med, medsOut, matches, patho,
               radio, testsOut>>
vars      == <<cleanVars, termVars, reqVars>>

(***************************************************************************)
(* Characters and str methods                                              *)
(***************************************************************************)
UpperCase == <<"A","B","C","D","E","F","G","H","I","J","K","L","M",
               "N","O","P","Q","R","S","T","U","V","W","X","Y","Z">>
LowerCase == <<"a","b","c","d","e","f","g","h","i","j","k","l","m",
               "n","o","p","q","r","s","t","u","v","w","x","y","z">>
Digits    == <<"0","1","2","3","4","5","6","7","8","9">>

IndexOf(seq, c) == CHOOSE n \in 1..Len(seq) : seq[n] = c
InSeq(seq, c)   == \E n \in 1..Len(seq) : seq[n] = c

\* [a-z] and [A-Z] of the regular expression of clean_text
IsLower(c) == InSeq(LowerCase, c)
IsUpper(c) == InSeq(UpperCase, c)
\* \s of the regular expression, and the characters str.strip() removes
IsSpace(c) == c \in {" ", "\t", "\n", "\r"}

\* code point of a character (the order sorted() compares strings by)
Ord(c) ==
    IF c = "\t" THEN 9
    ELSE IF c = "\n" THEN 10
    ELSE IF c = "\r" THEN 13
    ELSE IF c = " " THEN 32
    ELSE IF c = "," THEN 44
    ELSE IF c = "." THEN 46
    ELSE IF InSeq(Digits, c) THEN 47 + IndexOf(Digits, c)
    ELSE IF IsUpper(c) THEN 64 + IndexOf(UpperCase, c)
    ELSE 96 + IndexOf(LowerCase, c)

\* str.lower()
LowerChar(c) == IF IsUpper(c) THEN LowerCase[IndexOf(UpperCase, c)] ELSE c
StrLower(s)  == [n \in 1..Len(s) |-> LowerChar(s[n])]

\* str.strip()
RECURSIVE LStrip(_)
LStrip(s) == IF s # <<>> /\ IsSpace(Head(s)) THEN LStrip(Tail(s)) ELSE s
RECURSIVE RStrip(_)
RStrip(s) ==
    IF s # <<>> /\ IsSpace(s[Len(s)]) THEN RStrip(SubSeq(s, 1, Len(s) - 1))
    ELSE s
StrStrip(s) == RStrip(LStrip(s))

\* s < t for Python strings (code point order, a proper prefix is smaller)
RECURSIVE StrLess(_, _)
StrLess(s, t) ==
    IF t = <<>> THEN FALSE
    ELSE IF s = <<>> THEN TRUE
    ELSE IF Ord(Head(s)) # Ord(Head(t)) THEN Ord(Head(s)) < Ord(Head(t))
    ELSE StrLess(Tail(s), Tail(t))

(***************************************************************************)
(* clean_text                                                              *)
(***************************************************************************)
MaxLen == 4
CleanChars == {"a", "z", "A", " ", "\t", "."}

\* re.sub(r'([a-z])([A-Z])', r'\1. \2', text): matches are found left to
\* right and do not overlap
RECURSIVE SubBoundary(_)
SubBoundary(s) ==
    IF Len(s) < 2 THEN s
    ELSE IF IsLower(s[1]) /\ IsUpper(s[2])
         THEN <<s[1], ".", " ", s[2]>> \o SubBoundary(SubSeq(s, 3, Len(s)))
         ELSE <<s[1]>> \o SubBoundary(Tail(s))

\* SubSpaces changed: the pattern is \s, each whitespace character becomes
\* a space of its own
SubSpacesEach(s) == [n \in 1..Len(s) |-> IF IsSpace(s[n]) THEN " " ELSE s[n]]

\* re.sub(r'\s+', ' ', text)
RECURSIVE SubSpaces(_)
SubSpaces(s) ==
    IF s = <<>> THEN s
    ELSE IF IsSpace(s[1]) THEN <<" ">> \o SubSpaces(LStrip(s))
    ELSE <<s[1]>> \o SubSpaces(Tail(s))

CleanInit ==
    /\ rawText \in UNION {[1..n -> CleanChars] : n \in 0..MaxLen}
    /\ cleanPc = "boundary"
    /\ cleanBuf = rawText
    /\ cleanPass = 1
    /\ cleaned1 = <<>>
    /\ cleaned2 = <<>>

CleanIdle ==
    /\ rawText = <<>>
    /\ cleanPc = "idle"
    /\ cleanBuf = <<>>
    /\ cleanPass = 0
    /\ cleaned1 = <<>>
    /\ cleaned2 = <<>>

\* line 107
CleanBoundary ==
    /\ cleanPc = "boundary"
    /\ cleanBuf' = SubBoundary(cleanBuf)
    /\ cleanPc' = "spaces"
    /\ UNCHANGED <<rawText, cleanPass, cleaned1, cleaned2>>

\* line 108
CleanSpaces ==
    /\ cleanPc = "spaces"
    /\ cleanBuf' = SubSpaces(cleanBuf)
    /\ cleanPc' = "strip"
    /\ UNCHANGED <<rawText, cleanPass, cleaned1, cleaned2>>

\* line 109
CleanReturn ==
    /\ cleanPc = "strip"
    /\ cleanBuf' = StrStrip(cleanBuf)
    /\ IF cleanPass = 1
       THEN cleaned1' = StrStrip(cleanBuf) /\ cleanPc' = "returned"
            /\ UNCHANGED cleaned2
       ELSE cleaned2' = StrStrip(cleanBuf) /\ cleanPc' = "done"
            /\ UNCHANGED cleaned1
    /\ UNCHANGED <<rawText, cleanPass>>

\* clean_text called again on its own result
CleanAgain ==
    /\ cleanPc = "returned"
    /\ cleanPass = 1
    /\ cleanPass' = 2
    /\ cleanBuf' = cleaned1
    /\ cleanPc' = "boundary"
    /\ UNCHANGED <<rawText, cleaned1, cleaned2>>


(***************************************************************************)
(* expand_terms                                                            *)
(***************************************************************************)
MaxRows == 2

\* a pandas cell: NaN, or a value whose str() is the character sequence
NaN       == [isna |-> TRUE, value |-> <<>>]
Cell(str) == [isna |-> FALSE, value |-> str]

\* str.split(","): the pieces between the commas, empty pieces included
RECURSIVE SplitComma(_)
SplitComma(s) ==
    IF \A n \in 1..Len(s) : s[n] # "," THEN <<s>>
    ELSE LET c == CHOOSE n \in 1..Len(s) :
                      s[n] = "," /\ \A m \in 1..(n - 1) : s[m] # ","
         IN  <<SubSeq(s, 1, c - 1)>> \o SplitComma(SubSeq(s, c + 1, Len(s)))

\* set(all_terms)
SetOfList(l) == {l[n] : n \in 1..Len(l)}

\* sorted(S) for a set of strings
RECURSIVE Sorted(_)
Sorted(S) ==
    IF S = {} THEN <<>>
    ELSE LET least == CHOOSE x \in S : \A y \in S \ {x} : StrLess(x, y)
         IN  <<least>> \o Sorted(S \ {least})

\* the rows ["CBC, cbc ,Xray", "MRI"]
ExampleRows ==
    << Cell(<<"C","B","C",","," ","c","b","c"," ",",","X","r","a","y">>),
       Cell(<<"M","R","I">>) >>

TermCells ==
    { NaN, ExampleRows[1], ExampleRows[2],
      Cell(<<>>), Cell(<<"a">>), Cell(<<" ","b",",","a"," ">>),
      Cell(<<",","a",",">>), Cell(<<"B",","," ","\t">>) }

TermsInit ==
    /\ series \in UNION {[1..n -> TermCells] : n \in 0..MaxRows}
    /\ termsPc = "cells"
    /\ cellIdx = 1
    /\ pieces = <<>>
    /\ all_terms = <<>>
    /\ termsOut = <<>>

TermsIdle ==
    /\ series = <<>>
    /\ termsPc = "idle"
    /\ cellIdx = 0
    /\ pieces = <<>>
    /\ all_terms = <<>>
    /\ termsOut = <<>>

\* line 24, series.dropna(): a NaN cell is not iterated
DropNa ==
    /\ termsPc = "cells"
    /\ cellIdx <= Len(series)
    /\ series[cellIdx].isna
    /\ cellIdx' = cellIdx + 1
    /\ UNCHANGED <<series, termsPc, pieces, all_terms, termsOut>>

\* lines 24-25: the next cell is split on commas
SplitCell ==
    /\ termsPc = "cells"
    /\ cellIdx <= Len(series)
    /\ ~series[cellIdx].isna
    /\ pieces' = SplitComma(series[cellIdx].value)
    /\ cellIdx' = cellIdx + 1
    /\ termsPc' = "pieces"
    /\ UNCHANGED <<series, all_terms, termsOut>>

\* AppendTerm changed: the test `if term` is missing
AppendTermKeepEmpty ==
    /\ termsPc = "pieces"
    /\ all_terms' = Append(all_terms, StrStrip(Head(pieces)))
    /\ pieces' = Tail(pieces)
    /\ termsPc' = IF Len(pieces) = 1 THEN "cells" ELSE "pieces"
    /\ UNCHANGED <<series, cellIdx, termsOut>>

\* lines 25-28: one piece is stripped and kept when not empty
AppendTerm ==
    /\ termsPc = "pieces"
    /\ LET term == StrStrip(Head(pieces))
       IN  all_terms' = IF term # <<>> THEN Append(all_terms, term)
                        ELSE all_terms
    /\ pieces' = Tail(pieces)
    /\ termsPc' = IF Len(pieces) = 1 THEN "cells" ELSE "pieces"
    /\ UNCHANGED <<series, cellIdx, termsOut>>

\* line 29
TermsReturn ==
    /\ termsPc = "cells"
    /\ cellIdx > Len(series)
    /\ termsOut' = Sorted(SetOfList(all_terms))
    /\ termsPc' = "done"
    /\ UNCHANGED <<series, cellIdx, pieces, all_terms>>


(***************************************************************************)
(* The request: extract_medications, merge_medication_entities,            *)
(* extract_tests                                                           *)
(***************************************************************************)
MaxEnts == 3

\* Python None, and a value that is not None
None      == [none |-> TRUE]
Some(val) == [none |-> FALSE, val |-> val]

\* current_med before its first assignment
Unbound == 0

\* line 56
INVALID_DRUGS == { <<"g","e","n","e","r","i","c">> }

\* line 72
AttributeLabels ==
    {"STRENGTH", "FORM", "DOSAGE", "ROUTE", "FREQUENCY", "DURATION"}

\* label.lower() of line 75, for the labels of the labeller
LabelLower ==
    [ DRUG |-> "drug", STRENGTH |-> "strength", FORM |-> "form",
      DOSAGE |-> "dosage", ROUTE |-> "route", FREQUENCY |-> "frequency",
      DURATION |-> "duration" ]

\* a span of doc.ents: label_, text, and the token offsets start and end
Span(label, text, start, end) ==
    [label |-> label, text |-> text, start |-> start, end |-> end]

\* a token of the nlp_general document: its text and whether a space follows
Tok(text, ws) == [text |-> text, ws |-> ws]

Aspirin   == <<"A","s","p","i","r","i","n">>
aspirin   == <<"a","s","p","i","r","i","n">>
Generic   == <<"G","e","n","e","r","i","c">>
generic_  == <<" ","g","e","n","e","r","i","c"," ">>
mg500     == <<"5","0","0","m","g">>
mg10      == <<"1","0","m","g">>
oral      == <<"o","r","a","l">>
Metformin == <<"M","e","t","f","o","r","m","i","n">>
twice     == <<"t","w","i","c","e">>
daily     == <<"d","a","i","l","y">>
CBC       == <<"C","B","C">>
Xray      == <<"X","r","a","y">>
xray      == <<"x","r","a","y">>
chest     == <<"c","h","e","s","t">>
Tab       == <<"T","a","b">>
let       == <<"l","e","t">>

\* what the labeller may emit for one entity: a label and a text
EntVocab ==
    { <<"DRUG", Aspirin>>, <<"DRUG", aspirin>>, <<"DRUG", Generic>>,
      <<"DRUG", generic_>>, <<"STRENGTH", mg500>>, <<"STRENGTH", mg10>>,
      <<"ROUTE", oral>> }

\* "Patient prescribed Metformin 500mg oral twice daily. CBC and chest Xray
\* ordered.": tokens 0..13, the entities at the tokens of their words
ScenarioEnts ==
    << Span("DRUG", Metformin, 2, 3), Span("STRENGTH", mg500, 3, 4),
       Span("ROUTE", oral, 4, 5),
       Span("FREQUENCY", twice \o <<" ">> \o daily, 5, 7) >>

ScenarioDoc ==
    << Tok(<<"P","a","t","i","e","n","t">>, TRUE),
       Tok(<<"p","r","e","s","c","r","i","b","e","d">>, TRUE),
       Tok(Metformin, TRUE), Tok(mg500, TRUE), Tok(oral, TRUE),
       Tok(twice, TRUE), Tok(daily, FALSE), Tok(<<".">>, TRUE),
       Tok(CBC, TRUE), Tok(<<"a","n","d">>, TRUE), Tok(chest, TRUE),
       Tok(Xray, TRUE), Tok(<<"o","r","d","e","r","e","d">>, FALSE),
       Tok(<<".">>, FALSE) >>

\* spans [(DRUG,"Tab",0,1), (DRUG,"let",1,2)]
TabletEnts == << Span("DRUG", Tab, 0, 1), Span("DRUG", let, 1, 2) >>

\* other documents and dictionaries for extract_tests
OtherDocs ==
    { <<>>,
      << Tok(chest, TRUE), Tok(xray, TRUE), Tok(<<"a","n","d">>, TRUE),
         Tok(chest, TRUE), Tok(Xray, FALSE) >>,
      << Tok(<<"c","b","c">>, TRUE), Tok(CBC, FALSE) >> }

PathologyLists == { <<>>, << <<CBC>> >> }
RadiologyLists == { <<>>, << <<Xray>> >>, << <<chest, xray>>, <<CBC>> >> }

ReqInit ==
    /\ \/ /\ ents = <<>>
          /\ pc = "label"
          /\ doc = ScenarioDoc
          /\ pathology_terms = << <<CBC>> >>
          /\ radiology_terms = << <<Xray>> >>
       \/ /\ ents \in {<<>>, ScenarioEnts, TabletEnts}
          /\ pc = "merge"
          /\ doc \in OtherDocs \cup {ScenarioDoc}
          /\ pathology_terms \in PathologyLists
          /\ radiology_terms \in RadiologyLists
    /\ i = 0
    /\ skip_next = FALSE
    /\ merged = <<>>
    /\ k = 0
    /\ medications = <<>>
    /\ current_med = Unbound
    /\ medsOut = None
    /\ matches = {}
    /\ patho = <<>>
    /\ radio = <<>>
    /\ testsOut = <<None, None>>

ReqIdle ==
    /\ ents = <<>>
    /\ doc = <<>>
    /\ pathology_terms = <<>>
    /\ radiology_terms = <<>>
    /\ pc = "idle"
    /\ i = 0
    /\ skip_next = FALSE
    /\ merged = <<>>
    /\ k = 0
    /\ medications = <<>>
    /\ current_med = Unbound
    /\ medsOut = None
    /\ matches = {}
    /\ patho = <<>>
    /\ radio = <<>>
    /\ testsOut = <<None, None>>

\* ---- the labeller

\* lines 52-53, nlp_med7(cleaned_text): the labeller emits one more entity,
\* one token long, right after the last one (gap 0: adjacent) or one token
\* further
LabelEntity ==
    /\ pc = "label"
    /\ Len(ents) < MaxEnts
    /\ \E v \in EntVocab, gap \in {0, 1} :
          LET at == IF ents = <<>> THEN 0 ELSE ents[Len(ents)].end + gap
          IN  ents' = Append(ents, Span(v[1], v[2], at, at + 1))
    /\ UNCHANGED <<doc, pathology_terms, radiology_terms, pc, i, skip_next,
                   merged, k, medications, current_med, medsOut, matches,
                   patho, radio, testsOut>>

\* line 53: doc.ents is complete and merge_medication_entities is called
LabelReturn ==
    /\ pc = "label"
    /\ pc' = "merge"
    /\ UNCHANGED <<ents, doc, pathology_terms, radiology_terms, i, skip_next,
                   merged, k, medications, current_med, medsOut, matches,
                   patho, radio, testsOut>>

\* ---- merge_medication_entities

\* line 120: doc.ents[i+1].start == ent.end
Adjacent(ent, nxt) == nxt.start = ent.end

\* MergedPair changed: the merged entity carries the label of the second
\* span
MergedPairNextLabel(ent, nxt) ==
    [label |-> nxt.label, text |-> ent.text \o <<" ">> \o nxt.text]

\* lines 121-122: (ent.label_, ent.text + " " + doc.ents[i+1].text)
MergedPair(ent, nxt) ==
    [label |-> ent.label, text |-> ent.text \o <<" ">> \o nxt.text]

\* line 125: (ent.label_, ent.text)
Single(ent) == [label |-> ent.label, text |-> ent.text]

\* lines 115-125: one iteration of the loop over doc.ents; i is the index
\* enumerate() gives, ents[i + 1] the entity at that index
MergeStep ==
    /\ pc = "merge"
    /\ i < Len(ents)
    /\ IF skip_next
       THEN /\ skip_next' = FALSE
            /\ UNCHANGED merged
       ELSE IF i + 1 < Len(ents) /\ Adjacent(ents[i + 1], ents[i + 2])
       THEN /\ merged' = Append(merged, MergedPair(ents[i + 1], ents[i + 2]))
            /\ skip_next' = TRUE
       ELSE /\ merged' = Append(merged, Single(ents[i + 1]))
            /\ UNCHANGED skip_next
    /\ i' = i + 1
    /\ UNCHANGED <<ents, doc, pathology_terms, radiology_terms, pc, k,
                   medications, current_med, medsOut, matches, patho, radio,
                   testsOut>>

\* line 126 and lines 53-56: the loop is over, extract_medications starts
\* its own loop with an empty list medications
MergeReturn ==
    /\ pc = "merge"
    /\ i = Len(ents)
    /\ pc' = "assemble"
    /\ k' = 0
    /\ medications' = <<>>
    /\ UNCHANGED <<ents, doc, pathology_terms, radiology_terms, i, skip_next,
                   merged, current_med, medsOut, matches, patho, radio,
                   testsOut>>

\* ---- extract_medications

\* IsInvalidDrug changed: the name is looked up without lower()
IsInvalidDrugExact(drug_name) == drug_name \in INVALID_DRUGS

\* line 61: drug_name.lower() in INVALID_DRUGS
IsInvalidDrug(drug_name) == StrLower(drug_name) \in INVALID_DRUGS

\* FindExisting changed: the names are compared without lower()
FindExistingExact(meds, drug_name) ==
    LET hits == {n \in 1..Len(meds) : meds[n].drug = drug_name}
    IN  IF hits = {} THEN 0
        ELSE CHOOSE n \in hits : \A m \in hits : n <= m

\* line 65: the index of the first record whose drug equals drug_name
\* ignoring case, 0 when there is none
FindExisting(meds, drug_name) ==
    LET hits == {n \in 1..Len(meds) :
                    StrLower(meds[n].drug) = StrLower(drug_name)}
    IN  IF hits = {} THEN 0
        ELSE CHOOSE n \in hits : \A m \in hits : n <= m

\* line 69
NewRecord(drug_name) == [drug |-> drug_name]

\* line 75: current_med[label.lower()] = ent_text
SetField(med, key, ent_text) ==
    [f \in DOMAIN med \cup {key} |-> IF f = key THEN ent_text ELSE med[f]]

\* lines 58-75: one iteration of the loop over the merged entities
ScanEntity ==
    /\ pc = "assemble"
    /\ k < Len(merged)
    /\ LET label    == merged[k + 1].label
           ent_text == merged[k + 1].text
           drug_name == StrStrip(ent_text)
           existing == FindExisting(medications, drug_name)
       IN  IF label = "DRUG"
           THEN IF IsInvalidDrug(drug_name)
                THEN UNCHANGED <<pc, medications, current_med>>
                ELSE IF existing # 0
                THEN /\ current_med' = existing
                     /\ UNCHANGED <<pc, medications>>
                ELSE /\ medications' = Append(medications, NewRecord(drug_name))
                     /\ current_med' = Len(medications) + 1
                     /\ UNCHANGED pc
           ELSE IF label \in AttributeLabels
           THEN IF current_med = Unbound
                \* line 73 reads a local that was never assigned:
                \* UnboundLocalError leaves extract_medications
                THEN /\ pc' = "fault"
                     /\ UNCHANGED <<medications, current_med>>
                ELSE /\ medications' =
                            [medications EXCEPT ![current_med] =
                                SetField(@, LabelLower[label], ent_text)]
                     /\ UNCHANGED <<pc, current_med>>
           ELSE UNCHANGED <<pc, medications, current_med>>
    /\ k' = k + 1
    /\ UNCHANGED <<ents, doc, pathology_terms, radiology_terms, i, skip_next,
                   merged, medsOut, matches, patho, radio, testsOut>>

\* line 77: return medications or None
ReturnMedications ==
    /\ pc = "assemble"
    /\ k = Len(merged)
    /\ medsOut' = IF medications = <<>> THEN None ELSE Some(medications)
    /\ pc' = "tests"
    /\ UNCHANGED <<ents, doc, pathology_terms, radiology_terms, i, skip_next,
                   merged, k, medications, current_med, matches, patho, radio,
                   testsOut>>

\* ---- extract_tests

\* PhraseMatcher(attr="LOWER"): the tokens of the phrase equal, in lower
\* case, the tokens of doc from index start (0-based) on
PhraseAt(document, phrase, start) ==
    /\ start + Len(phrase) <= Len(document)
    /\ \A q \in 1..Len(phrase) :
          StrLower(document[start + q].text) = StrLower(phrase[q])

\* matcher(doc) for the patterns added under one label
MatchesOf(document, label, terms) ==
    { m \in [label : {label}, start : 0..Len(document),
             end : 0..Len(document)] :
        \E t \in 1..Len(terms) :
           /\ m.end = m.start + Len(terms[t])
           /\ PhraseAt(document, terms[t], m.start) }

\* doc[start:end].text: the tokens with the spaces between them
RECURSIVE SpanText(_, _, _)
SpanText(document, start, end) ==
    IF start >= end THEN <<>>
    ELSE document[start + 1].text
         \o (IF start + 1 < end /\ document[start + 1].ws THEN <<" ">>
             ELSE <<>>)
         \o SpanText(document, start + 1, end)

\* lines 81-91: the matcher is built from the non-empty term lists and run
RunMatcher ==
    /\ pc = "tests"
    /\ matches' =
          (IF pathology_terms # <<>>
           THEN MatchesOf(doc, "PATHOLOGY TEST", pathology_terms) ELSE {})
          \cup
          (IF radiology_terms # <<>>
           THEN MatchesOf(doc, "RADIOLOGY TEST", radiology_terms) ELSE {})
    /\ patho' = <<>>
    /\ radio' = <<>>
    /\ pc' = "bucket"
    /\ UNCHANGED <<ents, doc, pathology_terms, radiology_terms, i, skip_next,
                   merged, k, medications, current_med, medsOut, testsOut>>

\* lines 92-98: one match is put in its list (the matcher fixes the order of
\* its matches; any order is allowed here)
BucketMatch ==
    /\ pc = "bucket"
    /\ \E m \in matches :
          /\ matches' = matches \ {m}
          /\ LET span_text == SpanText(doc, m.start, m.end)
             IN  IF m.label = "PATHOLOGY TEST"
                 THEN patho' = Append(patho, span_text) /\ UNCHANGED radio
                 ELSE IF m.label = "RADIOLOGY TEST"
                 THEN radio' = Append(radio, span_text) /\ UNCHANGED patho
                 ELSE UNCHANGED <<patho, radio>>
    /\ UNCHANGED <<ents, doc, pathology_terms, radiology_terms, pc, i,
                   skip_next, merged, k, medications, current_med, medsOut,
                   testsOut>>

\* list(set(x)) or None
SetOrNone(l) == IF SetOfList(l) = {} THEN None ELSE Some(SetOfList(l))

\* line 100
ReturnTests ==
    /\ pc = "bucket"
    /\ matches = {}
    /\ testsOut' = <<SetOrNone(patho), SetOrNone(radio)>>
    /\ pc' = "done"
    /\ UNCHANGED <<ents, doc, pathology_terms, radiology_terms, i, skip_next,
                   merged, k, medications, current_med, medsOut, matches,
                   patho, radio>>

(***************************************************************************)
(* Specifications                                                          *)
(***************************************************************************)
Init == CleanIdle /\ TermsIdle /\ ReqInit

Next ==
    \/ (LabelEntity /\ UNCHANGED <<cleanVars, termVars>>)
    \/ (LabelReturn /\ UNCHANGED <<cleanVars, termVars>>)
    \/ (MergeStep /\ UNCHANGED <<cleanVars, termVars>>)
    \/ (MergeReturn /\ UNCHANGED <<cleanVars, termVars>>)
    \/ (ScanEntity /\ UNCHANGED <<cleanVars, termVars>>)
    \/ (ReturnMedications /\ UNCHANGED <<cleanVars, termVars>>)
    \/ (RunMatcher /\ UNCHANGED <<cleanVars, termVars>>)
    \/ (BucketMatch /\ UNCHANGED <<cleanVars, termVars>>)
    \/ (ReturnTests /\ UNCHANGED <<cleanVars, termVars>>)

Spec == Init /\ [][Next]_vars

CleanSpecInit == CleanInit /\ TermsIdle /\ ReqIdle

CleanNext ==
    \/ (CleanBoundary /\ UNCHANGED <<termVars, reqVars>>)
    \/ (CleanSpaces /\ UNCHANGED <<termVars, reqVars>>)
    \/ (CleanReturn /\ UNCHANGED <<termVars, reqVars>>)
    \/ (CleanAgain /\ UNCHANGED <<termVars, reqVars>>)

CleanSpec == CleanSpecInit /\ [][CleanNext]_vars

TermsSpecInit == CleanIdle /\ TermsInit /\ ReqIdle

TermsNext ==
    \/ (DropNa /\ UNCHANGED <<cleanVars, reqVars>>)
    \/ (SplitCell /\ UNCHANGED <<cleanVars, reqVars>>)
    \/ (AppendTerm /\ UNCHANGED <<cleanVars, reqVars>>)
    \/ (TermsReturn /\ UNCHANGED <<cleanVars, reqVars>>)

TermsSpec == TermsSpecInit /\ [][TermsNext]_vars


(***************************************************************************)
(* Properties                                                              *)
(***************************************************************************)
\* extract_medications is over: it returned, or it was left by an exception
MedsReturned == pc \in {"tests", "bucket", "done"}
MedsOver     == MedsReturned \/ pc = "fault"

\* merge_medication_entities has returned
Merged == pc \in {"assemble", "fault", "tests", "bucket", "done"}

\* entity n of merged is a DRUG entity whose name is block-listed
BlockListed(n) ==
    /\ merged[n].label = "DRUG"
    /\ StrLower(StrStrip(merged[n].text)) \in INVALID_DRUGS

\* entity n of merged is a DRUG entity that starts or resumes a record
ValidDrug(n) == merged[n].label = "DRUG" /\ ~BlockListed(n)

IsAttribute(n) == merged[n].label \in AttributeLabels

\* the largest element of a non-empty set of numbers, and the smallest
Largest(S)  == CHOOSE n \in S : \A m \in S : m <= n
Smallest(S) == CHOOSE n \in S : \A m \in S : n <= m

\* an attribute entity occurs in merged before any DRUG entity has started a
\* record
AttributeBeforeRecord ==
    \E n \in 1..Len(merged) :
        IsAttribute(n) /\ \A m \in 1..(n - 1) : ~ValidDrug(m)

\* C1: when an attribute entity occurs before any DRUG entity has started a
\* record, extract_medications still completes normally: the call never ends
\* in an unhandled fault.
AttributeBeforeDrugHandled ==
    (Merged /\ AttributeBeforeRecord) => pc # "fault"

\* the lower-cased name of the record an attribute entity n is attached to:
\* that of the last DRUG entity before n that started or resumed a record
RecordOf(n) ==
    LET before == {m \in 1..(n - 1) : ValidDrug(m)}
    IN  IF before = {} THEN None
        ELSE Some(StrLower(StrStrip(merged[Largest(before)].text)))

\* the attribute entities with key f attached to the record named drug
AttachedTo(drug, f) ==
    {n \in 1..Len(merged) :
        /\ IsAttribute(n)
        /\ LabelLower[merged[n].label] = f
        /\ RecordOf(n) = Some(StrLower(drug))}

\* C2: first-write-wins: every attribute field of a returned record holds the
\* text of the earliest attribute entity with that label attached to the
\* record; later ones are dropped.
FirstWriteWins ==
    (MedsReturned /\ ~medsOut.none) =>
        \A r \in 1..Len(medsOut.val) :
            \A f \in (DOMAIN medsOut.val[r]) \ {"drug"} :
                LET att == AttachedTo(medsOut.val[r].drug, f)
                IN  /\ att # {}
                    /\ medsOut.val[r][f] = merged[Smallest(att)].text

\* the adjacency merge pass as a function of the span sequence: a span
\* adjacent to its successor is emitted once, joined with it, and both are
\* consumed; any other span is emitted unchanged
RECURSIVE PairwiseMerge(_)
PairwiseMerge(spans) ==
    IF spans = <<>> THEN <<>>
    ELSE IF Len(spans) >= 2 /\ spans[1].end = spans[2].start
    THEN << [label |-> spans[1].label,
             text  |-> spans[1].text \o <<" ">> \o spans[2].text] >>
         \o PairwiseMerge(SubSeq(spans, 3, Len(spans)))
    ELSE << [label |-> spans[1].label, text |-> spans[1].text] >>
         \o PairwiseMerge(Tail(spans))

TabLet == <<"T","a","b"," ","l","e","t">>

\* C3: the list merge_medication_entities returns is the single-level
\* pairwise merge of the spans, in input order; the spans (DRUG,"Tab",0,1),
\* (DRUG,"let",1,2) give the one entity (DRUG,"Tab let") and one record.
MergePassCorrect ==
    /\ Merged => merged = PairwiseMerge(ents)
    /\ (Merged /\ ents = TabletEnts) =>
            merged = << [label |-> "DRUG", text |-> TabLet] >>
    /\ (MedsOver /\ ents = TabletEnts) =>
            /\ MedsReturned
            /\ medsOut = Some(<< [drug |-> TabLet] >>)

\* C3 witness: three spans in a row are adjacent; the first two were merged
\* and the third was emitted on its own
MergePassWitness ==
    /\ pc = "done"
    /\ Len(ents) = 3
    /\ ents[1].end = ents[2].start
    /\ ents[2].end = ents[3].start
    /\ Len(merged) = 2
    /\ merged[2].text = ents[3].text

\* C4: the end-to-end scenario gives one Metformin record with strength,
\* route and frequency, pathology_tests {"CBC"} and radiology_tests {"Xray"}.
ScenarioResult ==
    (/\ MedsOver
     /\ ents = ScenarioEnts
     /\ doc = ScenarioDoc
     /\ pathology_terms = << <<CBC>> >>
     /\ radiology_terms = << <<Xray>> >>) =>
        /\ pc # "fault"
        /\ medsOut = Some(<< [ drug      |-> Metformin,
                               strength  |-> mg500,
                               route     |-> oral,
                               frequency |-> twice \o <<" ">> \o daily ] >>)
        /\ pc = "done" => testsOut = <<Some({CBC}), Some({Xray})>>

\* the lower-cased names of the DRUG entities among the first n merged
\* entities that started or resumed a record
DrugNamesUpTo(n) ==
    {StrLower(StrStrip(merged[m].text)) : m \in {q \in 1..n : ValidDrug(q)}}

\* C5: at every step of the scan and in the returned list no two records
\* have drug names equal ignoring case: there is one record per name, and
\* the record a repeated DRUG entity resumes is the one of that name.
DrugUnique ==
    /\ \A a, b \in 1..Len(medications) :
          a # b => StrLower(medications[a].drug) # StrLower(medications[b].drug)
    /\ pc = "assemble" =>
          /\ Len(medications) = Cardinality(DrugNamesUpTo(k))
          /\ (k >= 1 /\ ValidDrug(k)) =>
                /\ current_med \in 1..Len(medications)
                /\ StrLower(medications[current_med].drug)
                      = StrLower(StrStrip(merged[k].text))
    /\ (MedsReturned /\ ~medsOut.none) =>
          /\ medsOut.val = medications
          /\ Len(medsOut.val) = Cardinality(DrugNamesUpTo(Len(merged)))

\* C5 witness: "Aspirin", then "aspirin", then an attribute: one record, and
\* the attribute is on it
DrugUniqueWitness ==
    /\ pc = "done"
    /\ Len(merged) = 3
    /\ merged[1] = [label |-> "DRUG", text |-> Aspirin]
    /\ merged[2] = [label |-> "DRUG", text |-> aspirin]
    /\ merged[3] = [label |-> "STRENGTH", text |-> mg500]
    /\ medsOut = Some(<< [drug |-> Aspirin, strength |-> mg500] >>)

\* a phrase of the list terms occurs in doc, compared in lower case
OccursIn(terms) ==
    \E t \in 1..Len(terms) : \E st \in 0..Len(doc) :
        /\ st + Len(terms[t]) <= Len(doc)
        /\ \A q \in 1..Len(terms[t]) :
              StrLower(doc[st + q].text) = StrLower(terms[t][q])

\* C6: extract_medications returns, for every input, None or a non-empty
\* list, None exactly when no DRUG entity started a record; each output of
\* extract_tests is None or a non-empty collection, None exactly when no
\* phrase of its category occurs.
NullNeverEmpty ==
    /\ MedsOver =>
          /\ pc # "fault"
          /\ medsOut.none <=> DrugNamesUpTo(Len(merged)) = {}
          /\ ~medsOut.none => Len(medsOut.val) > 0
    /\ pc = "done" =>
          /\ testsOut[1].none <=> ~OccursIn(pathology_terms)
          /\ testsOut[2].none <=> ~OccursIn(radiology_terms)
          /\ \A n \in 1..2 : ~testsOut[n].none => testsOut[n].val # {}

\* C7: no record, at any step or in the returned list, has a drug name that
\* is a block-listed name ignoring case.
NoInvalidDrug ==
    /\ \A n \in 1..Len(medications) :
          StrLower(medications[n].drug) \notin INVALID_DRUGS
    /\ (MedsReturned /\ ~medsOut.none) =>
          \A n \in 1..Len(medsOut.val) :
              StrLower(medsOut.val[n].drug) # <<"g","e","n","e","r","i","c">>

\* C7 witness: "Generic" and " generic " were both scanned as DRUG entities
\* and a list of records was returned
NoInvalidDrugWitness ==
    /\ pc = "done"
    /\ \E n \in 1..Len(merged) : merged[n] = [label |-> "DRUG", text |-> Generic]
    /\ \E n \in 1..Len(merged) : merged[n] = [label |-> "DRUG", text |-> generic_]
    /\ ~medsOut.none

\* the pieces of a row: a piece lies between two commas, or a comma and an
\* end of the row, and holds no comma
PiecesOf(row) ==
    { SubSeq(row, a, b) :
        <<a, b>> \in { x \in (1..(Len(row) + 1)) \X (0..Len(row)) :
                        /\ x[2] >= x[1] - 1
                        /\ (x[1] = 1 \/ row[x[1] - 1] = ",")
                        /\ (x[2] = Len(row) \/ row[x[2] + 1] = ",")
                        /\ \A n \in x[1]..x[2] : row[n] # "," } }

\* the non-empty trimmed pieces of the non-null rows
TrimmedPieces ==
    UNION { {StrStrip(piece) : piece \in PiecesOf(series[r].value)} :
            r \in {q \in 1..Len(series) : ~series[q].isna} }
    \ { <<>> }

TermsGeneral ==
    /\ \A n \in 1..(Len(termsOut) - 1) : StrLess(termsOut[n], termsOut[n + 1])
    /\ {termsOut[n] : n \in 1..Len(termsOut)} = TrimmedPieces

\* C8 as amended: expand_terms returns the ascending, duplicate-free list of
\* the non-empty trimmed pieces; terms differing in case are distinct, so
\* the rows ["CBC, cbc ,Xray", "MRI"] give ["CBC", "MRI", "Xray", "cbc"].
TermsSortedSet ==
    termsPc = "done" =>
        /\ TermsGeneral
        /\ series = ExampleRows =>
              termsOut = <<CBC, <<"M","R","I">>, Xray, <<"c","b","c">> >>

\* C8 as stated: the same, with the rows ["CBC, cbc ,Xray", "MRI"] giving
\* the sorted set {"CBC", "MRI", "Xray"}.
TermsSortedSetOriginal ==
    termsPc = "done" =>
        /\ TermsGeneral
        /\ series = ExampleRows => termsOut = <<CBC, <<"M","R","I">>, Xray>>

\* C8 witness: the example rows were expanded
TermsWitness ==
    /\ termsPc = "done"
    /\ series = ExampleRows
    /\ Len(termsOut) = 4

\* C9: clean_text applied to its own result returns it unchanged, and the
\* result has no two consecutive whitespace characters, no whitespace at
\* either end and no lowercase letter followed by an uppercase letter.
CleanIdempotent ==
    cleanPc = "done" =>
        /\ cleaned2 = cleaned1
        /\ \A n \in 1..(Len(cleaned2) - 1) :
              /\ ~(IsSpace(cleaned2[n]) /\ IsSpace(cleaned2[n + 1]))
              /\ ~(IsLower(cleaned2[n]) /\ IsUpper(cleaned2[n + 1]))
        /\ cleaned2 # <<>> =>
              ~IsSpace(cleaned2[1]) /\ ~IsSpace(cleaned2[Len(cleaned2)])

\* C9 witness: a text with a lowercase-uppercase transition and a run of
\* whitespace went through both applications
CleanWitness ==
    /\ cleanPc = "done"
    /\ \E n \in 1..(Len(rawText) - 1) :
          IsLower(rawText[n]) /\ IsUpper(rawText[n + 1])
    /\ \E n \in 1..(Len(rawText) - 1) :
          IsSpace(rawText[n]) /\ IsSpace(rawText[n + 1])
    /\ cleaned1 # rawText

\* C10: every attribute field of a returned record comes from an attribute
\* entity whose nearest preceding DRUG entity, block-listed or not, names
\* that record.
AttributesFromNearestDrug ==
    (MedsReturned /\ ~medsOut.none) =>
        \A r \in 1..Len(medsOut.val) :
            \A f \in (DOMAIN medsOut.val[r]) \ {"drug"} :
                \E n \in 1..Len(merged) :
                    /\ IsAttribute(n)
                    /\ LabelLower[merged[n].label] = f
                    /\ merged[n].text = medsOut.val[r][f]
                    /\ LET drugs == {m \in 1..(n - 1) : merged[m].label = "DRUG"}
                       IN  /\ drugs # {}
                           /\ StrLower(StrStrip(merged[Largest(drugs)].text))
                                 = StrLower(medsOut.val[r].drug)

=============================================================================
